---- MODULE Spec2Model ----
(***************************************************************************)
(* Model of the Apigee data-collector provider,                            *)
(* src/provider/resource_data_collector.go.                                *)
(*                                                                         *)
(* Strings the code inspects character by character (resource IDs, names)  *)
(* are sequences of one-character strings; strings the code only passes    *)
(* around (organization, status text, format strings) are TLA+ strings.    *)
(***************************************************************************)
EXTENDS Integers, Sequences, FiniteSets, TLC

VARIABLES cfg, issued, d, remote, last

vars == <<cfg, issued, d, remote, last>>

(***************************************************************************)
(* Bounds                                                                  *)
(***************************************************************************)
\* number of distinct access tokens the credential provider issues
MaxToken == 2
\* longest ID handed to the importer
MaxIdLen == 3

(***************************************************************************)
(* Program constants                                                       *)
(***************************************************************************)
StatusOK == 200
StatusCreated == 201
StatusNoContent == 204
StatusNotFound == 404
\* statuses the code never names: what a server answers a duplicate POST, and a failure
OtherStatuses == [conflict |-> 409, failure |-> 500]

\* the organization literal the POST, PUT and DELETE URLs are formatted with
HardcodedOrg == "ORG"

\* the separator the importer splits the ID on
Sep == "/"

(***************************************************************************)
(* Input domains                                                           *)
(***************************************************************************)
Orgs == {"ORG", "acme"}
Alphabet == {"d", Sep}
Names == {<<"d">>}
Descriptions == {<<>>, <<"t">>}
Types == {<<"a">>}
Specs == [name : Names, description : Descriptions, type : Types]
Statuses == {StatusOK, StatusCreated, StatusNoContent, StatusNotFound,
             OtherStatuses.failure}

RECURSIVE SeqsUpTo(_)
SeqsUpTo(n) ==
    IF n = 0 THEN {<<>>}
    ELSE LET shorter == SeqsUpTo(n - 1)
         IN shorter \cup {Append(s, c) : s \in {t \in shorter : Len(t) = n - 1}, c \in Alphabet}

ImportIds == SeqsUpTo(MaxIdLen) \ {<<>>}

\* resp.Status: the status line text of a response
StatusText(s) ==
    CASE s = StatusOK -> "200 OK"
      [] s = StatusCreated -> "201 Created"
      [] s = StatusNoContent -> "204 No Content"
      [] s = StatusNotFound -> "404 Not Found"
      [] s = OtherStatuses.conflict -> "409 Conflict"
      [] OTHER -> "500 Internal Server Error"

(***************************************************************************)
(* diag.Diagnostics                                                        *)
(***************************************************************************)
NoDiag == [isErr |-> FALSE, fmt |-> "", arg |-> ""]
Errorf(fmt, arg) == [isErr |-> TRUE, fmt |-> fmt, arg |-> arg]

(***************************************************************************)
(* schema.ResourceData of the one managed resource                         *)
(***************************************************************************)
BlankData == [id |-> <<>>, name |-> <<>>, description |-> <<>>, type |-> <<>>]

\* the host loads the planned configuration into d before Create and Update
Plan(rd, spec) ==
    [rd EXCEPT !.name = spec.name, !.description = spec.description, !.type = spec.type]

(***************************************************************************)
(* JSON values of a response body                                          *)
(***************************************************************************)
Str(s) == [kind |-> "string", s |-> s]
Mistyped == [kind |-> "number", s |-> <<>>]
Object(n, de, t) == [decodes |-> TRUE, name |-> n, description |-> de, type |-> t]
Undecodable == [decodes |-> FALSE, name |-> Str(<<>>), description |-> Str(<<>>), type |-> Str(<<>>)]
ForeignBodies ==
    {Undecodable,
     Object(Str(<<"d">>), Mistyped, Str(<<"a">>)),
     Object(Str(<<"d">>), Str(<<"t">>), Str(<<"a">>))}

(***************************************************************************)
(* HTTP requests and the remote server                                     *)
(***************************************************************************)
NoBody == [k \in {} |-> <<>>]
Request(method, org, perName, name, body, token) ==
    [method |-> method, org |-> org, perName |-> perName, name |-> name,
     body |-> body, token |-> token]
NoRequest == Request("", "", FALSE, <<>>, NoBody, 0)

\* the key the server files the addressed object under
Key(req) ==
    IF req.method = "POST" THEN <<req.org, req.body["name"]>> ELSE <<req.org, req.name>>

TransportError == [err |-> TRUE, status |-> 0, body |-> Undecodable]
Response(s, b) == [err |-> FALSE, status |-> s, body |-> b]

Stored(store, key) ==
    Object(Str(store[key].name), Str(store[key].description), Str(store[key].type))

\* what a server that stores objects under (org, name) and echoes them answers
ServerReply(req, store) ==
    LET present == Key(req) \in DOMAIN store
    IN CASE req.method = "POST" ->
              Response(IF present THEN OtherStatuses.conflict ELSE StatusCreated, Undecodable)
         [] req.method = "GET" ->
              IF present THEN Response(StatusOK, Stored(store, Key(req)))
              ELSE Response(StatusNotFound, Undecodable)
         [] req.method = "PUT" ->
              Response(IF present THEN StatusOK ELSE StatusNotFound, Undecodable)
         [] OTHER ->
              Response(IF present THEN StatusNoContent ELSE StatusNotFound, Undecodable)

\* every answer client.Do can produce: the echoing server's, any other status,
\* any other body, or a transport error
Replies(req, store) ==
    {TransportError, ServerReply(req, store)}
      \cup {Response(s, Undecodable) : s \in Statuses \ {StatusOK}}
      \cup (IF req.method = "GET"
            THEN {Response(StatusOK, b) : b \in ForeignBodies}
            ELSE {Response(StatusOK, Undecodable)})

\* the effect of an answered request on the server's store
ServerStore(req, reply, store) ==
    LET key == Key(req)
    IN CASE req.method = "POST" /\ ~reply.err /\ reply.status = StatusCreated ->
              [k \in DOMAIN store \cup {key} |->
                  IF k = key
                  THEN [name |-> req.body["name"],
                        description |-> req.body["description"],
                        type |-> req.body["type"]]
                  ELSE store[k]]
         [] req.method = "PUT" /\ ~reply.err /\ reply.status = StatusOK
              /\ key \in DOMAIN store ->
              [store EXCEPT ![key] = [@ EXCEPT !.description = req.body["description"],
                                              !.type = req.body["type"]]]
         [] req.method = "DELETE" /\ ~reply.err /\ reply.status = StatusNoContent ->
              [k \in DOMAIN store \ {key} |-> store[k]]
         [] OTHER -> store

\* the server holds no data collector at the start
EmptyStore == [k \in {} |-> [name |-> <<>>, description |-> <<>>, type |-> <<>>]]

(***************************************************************************)
(* strings.Split(id, "/")                                                  *)
(***************************************************************************)
HasSep(s) == \E i \in 1..Len(s) : s[i] = Sep
FirstSep(s) == CHOOSE i \in 1..Len(s) : s[i] = Sep /\ \A j \in 1..(i - 1) : s[j] # Sep

\* a mutant of Split: cuts at the first separator only (strings.SplitN(id, "/", 2))
SplitFirstOnly(s) ==
    IF ~HasSep(s) THEN <<s>>
    ELSE <<SubSeq(s, 1, FirstSep(s) - 1), SubSeq(s, FirstSep(s) + 1, Len(s))>>

RECURSIVE Split(_)
Split(s) ==
    IF ~HasSep(s) THEN <<s>>
    ELSE <<SubSeq(s, 1, FirstSep(s) - 1)>> \o Split(SubSeq(s, FirstSep(s) + 1, Len(s)))

(***************************************************************************)
(* The provider configuration                                              *)
(***************************************************************************)
DcNames == <<<<"d">>>>
NoBag == [k \in {} |-> 0]
NoConfig == [ok |-> FALSE, bag |-> NoBag]

\* the map providerConfigure returns
providerConfigureBag(org, token) ==
    [client |-> "oauth2", token |-> token, dc_names |-> DcNames, org_name |-> org]

\* config[key].(T): the assertion panics when the key is absent
Has(bag, key) == key \in DOMAIN bag

(***************************************************************************)
(* The lifecycle functions, as functions of the resource data, their       *)
(* parameters and the answer client.Do returns                             *)
(***************************************************************************)
SetId(rd, id) == [rd EXCEPT !.id = id]
Result(rd, diags) == [d |-> rd, diags |-> diags]
OperateFailed(what) == Errorf("failed to operate on data collector: %v", what)

CreatePayload(rd) == [name |-> rd.name, description |-> rd.description, type |-> rd.type]
CreateRequest(rd, token) ==
    Request("POST", HardcodedOrg, FALSE, <<>>, CreatePayload(rd), token)

\* a mutant of resourceDataCollectorCreateFunc: sets the ID before it looks at the answer
CreateFuncSetIdFirst(rd, token, reply) ==
    IF reply.err THEN Result(SetId(rd, rd.name), OperateFailed("transport"))
    ELSE IF reply.status # StatusCreated
    THEN Result(SetId(rd, rd.name),
                Errorf("failed to create data collector: %s", StatusText(reply.status)))
    ELSE Result(SetId(rd, rd.name), NoDiag)

resourceDataCollectorCreateFunc(rd, token, reply) ==
    IF reply.err THEN Result(rd, OperateFailed("transport"))
    ELSE IF reply.status # StatusCreated
    THEN Result(rd, Errorf("failed to create data collector: %s", StatusText(reply.status)))
    ELSE Result(SetId(rd, rd.name), NoDiag)

ReadRequest(rd, token, org) == Request("GET", org, TRUE, rd.id, NoBody, token)

\* the three d.Set calls on the decoded body, in order; the first value that
\* cannot be stored as a string ends the function with an error
SetFromBody(rd, body, failure) ==
    IF ~body.decodes THEN Result(rd, failure)
    ELSE IF body.name.kind # "string" THEN Result(rd, failure)
    ELSE IF body.description.kind # "string"
    THEN Result([rd EXCEPT !.name = body.name.s], failure)
    ELSE IF body.type.kind # "string"
    THEN Result([rd EXCEPT !.name = body.name.s, !.description = body.description.s], failure)
    ELSE Result([rd EXCEPT !.name = body.name.s, !.description = body.description.s,
                           !.type = body.type.s], NoDiag)

\* a mutant of resourceDataCollectorRead: reports a 404 like any other status
ReadNotFoundIsError(rd, token, org, reply) ==
    IF reply.err THEN Result(rd, OperateFailed("transport"))
    ELSE IF reply.status # StatusOK
    THEN Result(rd, Errorf("failed to read data collector: %s", StatusText(reply.status)))
    ELSE SetFromBody(rd, reply.body, OperateFailed("body"))

resourceDataCollectorRead(rd, token, org, reply) ==
    IF reply.err THEN Result(rd, OperateFailed("transport"))
    ELSE IF reply.status # StatusOK
    THEN IF reply.status = StatusNotFound
         THEN Result(SetId(rd, <<>>), NoDiag)
         ELSE Result(rd, Errorf("failed to read data collector: %s", StatusText(reply.status)))
    ELSE SetFromBody(rd, reply.body, OperateFailed("body"))

\* a mutant of UpdatePayload: sends the name as well
UpdatePayloadWithName(rd) ==
    [name |-> rd.name, description |-> rd.description, type |-> rd.type]

UpdatePayload(rd) == [description |-> rd.description, type |-> rd.type]
UpdateRequest(rd, token) ==
    Request("PUT", HardcodedOrg, TRUE, rd.name, UpdatePayload(rd), token)

\* a mutant of resourceDataCollectorUpdate: takes every 2xx status for a success
UpdateAcceptsAny2xx(rd, token, reply) ==
    IF reply.err THEN Result(rd, OperateFailed("transport"))
    ELSE IF reply.status < StatusOK \/ reply.status >= StatusOK + 100
    THEN Result(rd, Errorf("failed to update data collector: %s", StatusText(reply.status)))
    ELSE Result(rd, NoDiag)

resourceDataCollectorUpdate(rd, token, reply) ==
    IF reply.err THEN Result(rd, OperateFailed("transport"))
    ELSE IF reply.status # StatusOK
    THEN Result(rd, Errorf("failed to update data collector: %s", StatusText(reply.status)))
    ELSE Result(rd, NoDiag)

DeleteRequest(rd, token) == Request("DELETE", HardcodedOrg, TRUE, rd.id, NoBody, token)

\* a mutant of resourceDataCollectorDeleteFunc: clears the ID whatever the answer
DeleteFuncAlwaysClears(rd, token, reply) ==
    IF reply.err THEN Result(SetId(rd, <<>>), OperateFailed("transport"))
    ELSE IF reply.status # StatusNoContent
    THEN Result(SetId(rd, <<>>),
                Errorf("failed to delete data collector: %s", StatusText(reply.status)))
    ELSE Result(SetId(rd, <<>>), NoDiag)

resourceDataCollectorDeleteFunc(rd, token, reply) ==
    IF reply.err THEN Result(rd, OperateFailed("transport"))
    ELSE IF reply.status # StatusNoContent
    THEN Result(rd, Errorf("failed to delete data collector: %s", StatusText(reply.status)))
    ELSE Result(SetId(rd, <<>>), NoDiag)

\* the importer's result: the resource data, the diagnostics, whether a
\* resource list is returned (nil otherwise), whether a request was issued
Imported(rd, diags, resources, sent, projectID, name) ==
    [d |-> rd, diags |-> diags, resources |-> resources, sent |-> sent,
     projectID |-> projectID, name |-> name]

WellFormed(id) == Len(Split(id)) = 2
ImportRequest(rd, m) == Request("GET", m.org, TRUE, Split(rd.id)[2], NoBody, m.token)

\* d.Set("project_id", ...) finds no such field in the resource's schema and
\* stores nothing; d.Set("name", name) stores the parsed name
resourceDataCollectorImportFunc(rd, m, reply) ==
    LET parts == Split(rd.id)
    IN IF Len(parts) # 2
       THEN Imported(rd, Errorf("unexpected format of ID (%s), expected project_id/name", "id"),
                     FALSE, FALSE, <<>>, <<>>)
       ELSE LET projectID == parts[1]
                name == parts[2]
                named == [rd EXCEPT !.name = name]
            IN IF reply.err
               THEN Imported(named, OperateFailed("transport"), FALSE, TRUE, projectID, name)
               ELSE IF reply.status # StatusOK
               THEN IF reply.status = StatusNotFound
                    THEN Imported(SetId(named, <<>>), NoDiag, TRUE, TRUE, projectID, name)
                    ELSE Imported(named,
                                  Errorf("failed to read data collector: %s",
                                         StatusText(reply.status)),
                                  FALSE, TRUE, projectID, name)
               ELSE LET set == SetFromBody(named, reply.body,
                                           Errorf("failed to import data collector: %v", "body"))
                    IN Imported(set.d, set.diags, ~set.diags.isErr, TRUE, projectID, name)

\* golang.org/x/oauth2: the credential provider's current token, or an error
getGoogleAccessToken(ok) == [err |-> ~ok, token |-> IF ok THEN issued ELSE 0]

(***************************************************************************)
(* The host: a resource whose ID is empty after an operation is dropped    *)
(* from the state; a failed import adds nothing to it                      *)
(***************************************************************************)
Persist(rd) == IF rd.id = <<>> THEN BlankData ELSE rd

(***************************************************************************)
(* The record of the last operation                                        *)
(***************************************************************************)
NoPlan == [name |-> <<>>, description |-> <<>>, type |-> <<>>]
Idle(op) ==
    [op |-> op, entry |-> "", result |-> "", sent |-> FALSE, req |-> NoRequest,
     reply |-> TransportError, echo |-> FALSE, diags |-> NoDiag, idBefore |-> <<>>,
     plan |-> NoPlan, org |-> "", cfgOrg |-> "", issuedAt |-> 0, importId |-> <<>>,
     projectID |-> <<>>, resources |-> FALSE]

CfgOrg == IF cfg.ok /\ Has(cfg.bag, "org_name") THEN cfg.bag.org_name ELSE ""

\* an operation that ran to its return
Returned(op, entry, rd0, plan, org, sent, req, reply, diags) ==
    [Idle(op) EXCEPT !.entry = entry, !.result = IF diags.isErr THEN "error" ELSE "ok",
                     !.sent = sent, !.req = IF sent THEN req ELSE NoRequest,
                     !.reply = IF sent THEN reply ELSE TransportError,
                     !.echo = sent /\ reply = ServerReply(req, remote),
                     !.diags = diags, !.idBefore = rd0.id, !.plan = plan, !.org = org,
                     !.cfgOrg = CfgOrg, !.issuedAt = issued]

\* a failed type assertion ends the plugin process: its configuration is gone
Panicked(op, entry) ==
    /\ cfg' = NoConfig
    /\ last' = [Idle(op) EXCEPT !.entry = entry, !.result = "panic", !.idBefore = d.id,
                                !.cfgOrg = CfgOrg, !.issuedAt = issued]
    /\ UNCHANGED <<issued, d, remote>>

(***************************************************************************)
(* Actions                                                                 *)
(***************************************************************************)
Init ==
    /\ cfg = NoConfig
    /\ issued = 1
    /\ d = BlankData
    /\ remote = EmptyStore
    /\ last = Idle("")

\* the credential provider issues a new access token (the old one expires)
RotateToken ==
    /\ issued < MaxToken
    /\ issued' = issued + 1
    /\ last' = Idle("Rotate")
    /\ UNCHANGED <<cfg, d, remote>>

providerConfigure ==
    /\ ~cfg.ok
    /\ \E org \in Orgs, credentialsOk \in BOOLEAN, tokenOk \in BOOLEAN :
          IF credentialsOk /\ tokenOk
          THEN /\ cfg' = [ok |-> TRUE, bag |-> providerConfigureBag(org, issued)]
               /\ last' = [Idle("Configure") EXCEPT !.result = "ok", !.org = org,
                                                     !.issuedAt = issued]
          ELSE /\ cfg' = NoConfig
               /\ last' = [Idle("Configure") EXCEPT
                              !.result = "error", !.org = org, !.issuedAt = issued,
                              !.diags = OperateFailed(IF credentialsOk THEN "token"
                                                      ELSE "credentials")]
    /\ UNCHANGED <<issued, d, remote>>

resourceDataCollectorCreateWrapper ==
    /\ cfg.ok
    /\ d.id = <<>>
    /\ \E spec \in Specs :
          IF ~(Has(cfg.bag, "client") /\ Has(cfg.bag, "token"))
          THEN Panicked("Create", "host")
          ELSE LET rd0 == Plan(d, spec)
                   req == CreateRequest(rd0, cfg.bag.token)
               IN \E reply \in Replies(req, remote) :
                     LET out == resourceDataCollectorCreateFunc(rd0, cfg.bag.token, reply)
                     IN /\ d' = Persist(out.d)
                        /\ remote' = ServerStore(req, reply, remote)
                        /\ last' = Returned("Create", "host", rd0, spec, "",
                                            TRUE, req, reply, out.diags)
                        /\ UNCHANGED <<cfg, issued>>

\* the body of a Read, entered by the host or called with its own arguments
ReadSteps(entry, token, org) ==
    LET req == ReadRequest(d, token, org)
    IN \E reply \in Replies(req, remote) :
          LET out == resourceDataCollectorRead(d, token, org, reply)
          IN /\ d' = Persist(out.d)
             /\ remote' = ServerStore(req, reply, remote)
             /\ last' = Returned("Read", entry, d, NoPlan, org, TRUE, req, reply, out.diags)
             /\ UNCHANGED <<cfg, issued>>

resourceDataCollectorReadFunc ==
    /\ cfg.ok
    /\ d.id # <<>>
    /\ IF ~(Has(cfg.bag, "client") /\ Has(cfg.bag, "token") /\ Has(cfg.bag, "org"))
       THEN Panicked("Read", "host")
       ELSE ReadSteps("host", cfg.bag.token, cfg.bag.org)

\* resourceDataCollectorRead called with a client, a current token and the
\* organization the provider was configured with
DirectRead ==
    /\ cfg.ok
    /\ d.id # <<>>
    /\ ReadSteps("direct", issued, CfgOrg)

resourceDataCollectorUpdateFunc ==
    /\ cfg.ok
    /\ d.id # <<>>
    /\ \E spec \in Specs :
          IF ~(Has(cfg.bag, "client") /\ Has(cfg.bag, "token"))
          THEN Panicked("Update", "host")
          ELSE LET rd0 == Plan(d, spec)
                   req == UpdateRequest(rd0, cfg.bag.token)
               IN \E reply \in Replies(req, remote) :
                     LET out == resourceDataCollectorUpdate(rd0, cfg.bag.token, reply)
                     IN /\ d' = Persist(out.d)
                        /\ remote' = ServerStore(req, reply, remote)
                        /\ last' = Returned("Update", "host", rd0, spec, "",
                                            TRUE, req, reply, out.diags)
                        /\ UNCHANGED <<cfg, issued>>

resourceDataCollectorDelete ==
    /\ cfg.ok
    /\ d.id # <<>>
    /\ IF ~(Has(cfg.bag, "client") /\ Has(cfg.bag, "token"))
       THEN Panicked("Delete", "host")
       ELSE LET req == DeleteRequest(d, cfg.bag.token)
            IN \E reply \in Replies(req, remote) :
                  LET out == resourceDataCollectorDeleteFunc(d, cfg.bag.token, reply)
                  IN /\ d' = Persist(out.d)
                     /\ remote' = ServerStore(req, reply, remote)
                     /\ last' = Returned("Delete", "host", d, NoPlan, "",
                                         TRUE, req, reply, out.diags)
                     /\ UNCHANGED <<cfg, issued>>

\* the body of an import of the ID the host put into a new resource's data;
\* m is the map resourceDataCollectorImportFunc looks its arguments up in
ImportSteps(entry, importId, m) ==
    LET rd0 == [BlankData EXCEPT !.id = importId]
    IN IF ~(Has(m, "client") /\ Has(m, "token") /\ Has(m, "org"))
       THEN Panicked("Import", entry)
       ELSE \E reply \in (IF WellFormed(importId) THEN Replies(ImportRequest(rd0, m), remote)
                          ELSE {TransportError}) :
               LET out == resourceDataCollectorImportFunc(rd0, m, reply)
                   req == ImportRequest(rd0, m)
               IN /\ d' = IF out.resources THEN Persist(out.d) ELSE BlankData
                  /\ last' = [Returned("Import", entry, rd0, NoPlan, m.org, out.sent,
                                       req, reply, out.diags)
                                 EXCEPT !.importId = importId, !.projectID = out.projectID,
                                        !.resources = out.resources]
                  /\ UNCHANGED <<cfg, issued, remote>>

resourceDataCollectorImport ==
    /\ cfg.ok
    /\ d.id = <<>>
    /\ IF ~(Has(cfg.bag, "client") /\ Has(cfg.bag, "token") /\ Has(cfg.bag, "org"))
       THEN Panicked("Import", "host")
       ELSE \E importId \in ImportIds :
               ImportSteps("host", importId,
                           [client |-> cfg.bag.client, token |-> cfg.bag.token,
                            org |-> cfg.bag.org])

\* resourceDataCollectorImportFunc called with a map that holds its three keys:
\* a client, a current token and the organization the provider was configured with
DirectImportFunc ==
    /\ cfg.ok
    /\ d.id = <<>>
    /\ \E importId \in ImportIds :
          ImportSteps("direct", importId,
                      [client |-> "oauth2", token |-> issued, org |-> CfgOrg])

\* the revision of Create that asks the credential provider for a token itself
\* (src/unnamed/part_002), called with an HTTP client
resourceDataCollectorCreateFuncADC ==
    /\ d.id = <<>>
    /\ \E spec \in Specs, tokenOk \in BOOLEAN :
          LET rd0 == Plan(d, spec)
              tok == getGoogleAccessToken(tokenOk)
              req == CreateRequest(rd0, tok.token)
          IN IF tok.err
             THEN /\ last' = Returned("CreateADC", "direct", rd0, spec, "", FALSE, req,
                                      TransportError, Errorf("%v", "token"))
                  /\ UNCHANGED <<cfg, issued, d, remote>>
             ELSE \E reply \in Replies(req, remote) :
                     LET out == IF reply.err THEN Result(rd0, Errorf("%v", "transport"))
                                ELSE resourceDataCollectorCreateFunc(rd0, tok.token, reply)
                     IN /\ d' = Persist(out.d)
                        /\ remote' = ServerStore(req, reply, remote)
                        /\ last' = Returned("CreateADC", "direct", rd0, spec, "",
                                            TRUE, req, reply, out.diags)
                        /\ UNCHANGED <<cfg, issued>>

(***************************************************************************)
(* Next-state relation                                                     *)
(***************************************************************************)
Next ==
    \/ RotateToken
    \/ providerConfigure
    \/ resourceDataCollectorCreateWrapper
    \/ resourceDataCollectorReadFunc
    \/ DirectRead
    \/ resourceDataCollectorUpdateFunc
    \/ resourceDataCollectorDelete
    \/ resourceDataCollectorImport
    \/ DirectImportFunc
    \/ resourceDataCollectorCreateFuncADC

Spec == Init /\ [][Next]_vars

(***************************************************************************)
(* Properties                                                              *)
(***************************************************************************)
Answered == last.sent /\ ~last.reply.err
Creates == {"Create", "CreateADC"}
SuccessCode(op) ==
    CASE op \in Creates -> StatusCreated
      [] op = "Delete" -> StatusNoContent
      [] OTHER -> StatusOK

\* a body the three fields of which can be decoded and stored
Storable(body) ==
    /\ body.decodes
    /\ \A v \in {body.name, body.description, body.type} : v.kind = "string"

\* C1 as stated: for every operation and every status, success exactly on the
\* operation's success code; any other status is an error that carries the
\* status text, except a 404 on Read, which is no error.
C1_StatusDecidesOutcome ==
    (last.op \in Creates \cup {"Read", "Update", "Delete"} /\ Answered) =>
        IF last.reply.status = SuccessCode(last.op) THEN last.result = "ok"
        ELSE IF last.op = "Read" /\ last.reply.status = StatusNotFound
        THEN last.result = "ok"
        ELSE last.result = "error" /\ last.diags.arg = StatusText(last.reply.status)

\* C1 amended: as C1, except that a Read answered 200 succeeds only when the
\* body decodes into fields that can be stored; otherwise it ends in an error
\* that carries the decoding failure instead of the status text.
C1_StatusAndBodyDecideOutcome ==
    (last.op \in Creates \cup {"Read", "Update", "Delete"} /\ Answered) =>
        IF last.reply.status = SuccessCode(last.op)
        THEN IF last.op = "Read" /\ ~Storable(last.reply.body)
             THEN last.result = "error" /\ last.diags = OperateFailed("body")
             ELSE last.result = "ok"
        ELSE IF last.op = "Read" /\ last.reply.status = StatusNotFound
        THEN last.result = "ok"
        ELSE last.result = "error" /\ last.diags.arg = StatusText(last.reply.status)

C1_Witness ==
    /\ last.op = "Delete"
    /\ Answered
    /\ last.reply.status = StatusOK
    /\ last.diags = Errorf("failed to delete data collector: %s", "200 OK")

\* C2: Create sets the ID to the planned name if and only if the POST is
\* answered 201; a failed Create (a transport error, any other status, no
\* token) ends in an error and leaves the ID as it was.
C2_CreateSetsIdOnlyOn201 ==
    (last.op \in Creates /\ last.result # "panic") =>
        IF Answered /\ last.reply.status = StatusCreated
        THEN last.result = "ok" /\ d.id = last.plan.name
        ELSE last.result = "error" /\ d.id = last.idBefore

C2_Witness ==
    /\ last.op = "Create"
    /\ Answered
    /\ last.reply.status = StatusCreated
    /\ d.id = <<"d">>
    /\ last.idBefore = <<>>

\* C3: a 404 ends Read and Import without an error and with an empty ID;
\* Import still returns the resource.
C3_NotFoundIsNoError ==
    (last.op \in {"Read", "Import"} /\ Answered /\ last.reply.status = StatusNotFound) =>
        /\ last.result = "ok"
        /\ ~last.diags.isErr
        /\ d.id = <<>>
        /\ last.op = "Import" => last.resources

C3_Witness ==
    /\ last.op = "Import"
    /\ Answered
    /\ last.reply.status = StatusNotFound
    /\ last.resources
    /\ last.idBefore = <<"d", Sep, "d">>

C3_ReadWitness ==
    /\ last.op = "Read"
    /\ Answered
    /\ last.reply.status = StatusNotFound
    /\ last.idBefore = <<"d">>

\* C4: Delete clears the ID if and only if the DELETE is answered 204; on a
\* transport error or any other status it ends in an error and the ID stays.
C4_DeleteClearsIdOnlyOn204 ==
    (last.op = "Delete" /\ last.result # "panic") =>
        IF Answered /\ last.reply.status = StatusNoContent
        THEN last.result = "ok" /\ d.id = <<>>
        ELSE last.result = "error" /\ d.id = last.idBefore /\ d.id # <<>>

C4_Witness ==
    /\ last.op = "Delete"
    /\ Answered
    /\ last.reply.status = StatusNoContent
    /\ last.idBefore = <<"d">>
    /\ d.id = <<>>

\* C5: the body Update sends holds exactly description and type, with the
\* planned values, and no name; the body Create sends holds name, description
\* and type.
C5_PayloadFields ==
    /\ (last.op = "Update" /\ last.sent) =>
          /\ DOMAIN last.req.body = {"description", "type"}
          /\ last.req.body["description"] = last.plan.description
          /\ last.req.body["type"] = last.plan.type
    /\ (last.op \in Creates /\ last.sent) =>
          /\ DOMAIN last.req.body = {"name", "description", "type"}
          /\ last.req.body["name"] = last.plan.name
          /\ last.req.body["description"] = last.plan.description
          /\ last.req.body["type"] = last.plan.type

C5_Witness ==
    /\ last.op = "Update"
    /\ last.sent
    /\ last.plan = [name |-> <<"d">>, description |-> <<"t">>, type |-> <<"a">>]

\* C6: an ID with exactly one "/" is cut into the project before it and the
\* name after it, and the GET asks for that name; any other ID ends in the
\* malformed-ID error and no request is issued.
Separators(id) == Cardinality({i \in 1..Len(id) : id[i] = Sep})
C6_ImportSplitsId ==
    (last.op = "Import" /\ last.result # "panic") =>
        IF Separators(last.importId) = 1
        THEN /\ last.sent
             /\ last.req.method = "GET"
             /\ last.importId = last.projectID \o <<Sep>> \o last.req.name
        ELSE /\ ~last.sent
             /\ last.result = "error"
             /\ last.diags.fmt = "unexpected format of ID (%s), expected project_id/name"

C6_Witness ==
    /\ last.op = "Import"
    /\ last.importId = <<"d", "d", Sep>>
    /\ last.sent
    /\ last.projectID = <<"d", "d">>
    /\ last.req.name = <<>>

C6_MalformedWitness ==
    /\ last.op = "Import"
    /\ Separators(last.importId) = 2
    /\ ~last.sent

\* C7: a Create answered 201 by the storing server, followed by a Read under
\* the same configuration that the storing server answers, ends with the
\* planned name, description and type in the resource data and the ID set.
C7_CreateThenReadRoundTrip ==
    [][(/\ last.op = "Create"
        /\ last.result = "ok"
        /\ last.echo
        /\ last'.op = "Read"
        /\ last'.result # "panic"
        /\ last'.echo
        /\ last'.org = last.cfgOrg)
       => (/\ last'.result = "ok"
           /\ d'.id # <<>>
           /\ d'.name = last.plan.name
           /\ d'.description = last.plan.description
           /\ d'.type = last.plan.type)]_vars

\* C8: every request is addressed under the organization the provider was
\* configured with, and Read, Update and Delete ask for the resource's ID.
C8_SameKeyEverywhere ==
    (last.sent /\ last.op \in {"Create", "Read", "Update", "Delete", "Import"}) =>
        /\ last.req.org = last.cfgOrg
        /\ last.op \in {"Read", "Update", "Delete"} =>
              last.req.perName /\ last.req.name = last.idBefore

\* C9: the token an operation puts into its request's Authorization header is
\* the one the credential provider holds when the operation runs, never one
\* captured before a newer one was issued.
C9_TokenIsCurrent ==
    (last.sent /\ (last.entry = "host" \/ last.op = "CreateADC")) =>
        last.req.token = last.issuedAt

\* C10: after an import that the server answers 200, the ID is the name the
\* import asked the server for, not the composite ID.
C10_ImportLeavesNameAsId ==
    (last.op = "Import" /\ Answered /\ last.reply.status = StatusOK /\ last.result = "ok") =>
        d.id = last.req.name

\* C11: the map a successful providerConfigure returns holds every key the
\* lifecycle operations look up, so no operation the host invokes with it ends
\* in a failed type assertion: each ends in success or an error diagnostic.
C11_ConfigHoldsEveryKey ==
    /\ cfg.ok => {"client", "token", "org"} \subseteq DOMAIN cfg.bag
    /\ (last.entry = "host"
          /\ last.op \in {"Create", "Read", "Update", "Delete", "Import"}) =>
          last.result \in {"ok", "error"}
====
